---- MODULE Spec2Model ----
(***************************************************************************)
(* A model of the IoT routing code of Algorithm/Dijkstra:                  *)
(*   - dijkstra (iot_routing_dijkstra.py, identical in dijistra2.py):      *)
(*     a state machine over its working structures dist, prev and pq;      *)
(*   - build_graph of both files: a function of the node set and the mode; *)
(*   - find_pivots (FindingPivots.py): a function of its five arguments.   *)
(*   - reroute_on_failure, reroute_with_banned and has_reverse_path        *)
(*     (iot_routing_dijkstra.py): callers that enter dijkstra.             *)
(* Vertex ids are the integers 1..NumVertices (the heap orders entries by  *)
(* (distance, id), as Python orders the tuples it is given); weights and   *)
(* distances are naturals, and math.inf is the number Inf, larger than     *)
(* every cost a run can produce.                                           *)
(***************************************************************************)
EXTENDS Integers, Sequences, FiniteSets, TLC

VARIABLES
    \* ---- dijkstra(adj, start, goal, banned) ----
    adj,        \* adjacency list: vertex -> sequence of <<neighbor, weight>>
    start,      \* argument start
    goal,       \* argument goal
    banned,     \* argument banned (a set of vertex ids)
    dist,       \* dist[u]: best known cost from start to u
    prev,       \* prev[u]: predecessor of u, or None
    pq,         \* the heap, as the sequence of its entries <<d, u>> in pop order
    pc,         \* position of the call: "start", "loop", "finish", "done"; of a
                \* wrapper: "idle", "returned", "raised"
    result,     \* the returned pair <<cost, path>>
    pops,       \* number of heappop calls made
    expanded,   \* expanded[u]: number of times the edge loop of u was run
    \* ---- build_graph(nodes, mode, paths, undirected, weight_fn) ----
    nodes,      \* the dict of Node records [x, y, r], in key order; the id is the index
    mode,       \* argument mode
    paths,      \* argument paths of dijistra2.build_graph: [given, recs]
    undirected, \* argument undirected of dijistra2.build_graph
    weight_fn,  \* argument weight_fn
    built,      \* outcome of build_graph: [by, kind, adj]
    \* ---- find_pivots(edges, d_hat, S, k, B) ----
    edges,      \* argument edges
    d_hat,      \* argument d_hat
    S,          \* argument S
    k,          \* argument k
    B,          \* argument B
    pivots,     \* the returned pair [P, W], with the return statement taken
    \* ---- reroute_on_failure, reroute_with_banned, has_reverse_path ----
    call        \* the wrapper under way: [fn, args, nth, before, ret]; nth counts the
                \* calls made and before holds the ids banned in the earlier ones

vars == <<adj, start, goal, banned, dist, prev, pq, pc, result, pops, expanded,
          nodes, mode, paths, undirected, weight_fn, built,
          edges, d_hat, S, k, B, pivots, call>>

dijkstraVars == <<adj, start, goal, banned, dist, prev, pq, pc, result, pops, expanded>>
buildVars == <<nodes, mode, paths, undirected, weight_fn, built>>
pivotVars == <<edges, d_hat, S, k, B, pivots>>
callerVars == <<call>>

-----------------------------------------------------------------------------
(* Bounds of the model *)

NumVertices == 3
MaxEdges == 3
MaxWeight == 1

Vertices == 1..NumVertices
Weights == 0..MaxWeight

(* math.inf *)
Inf == 1000000
(* Python's None, for prev[u] *)
None == 0
NotCalled == "not called"

-----------------------------------------------------------------------------
(* Graphs: every adjacency list over Vertices with at most MaxEdges edges   *)
(* in all, parallel edges and self-loops included.                          *)

EdgePairs == Vertices \X Weights

RECURSIVE GraphsFrom(_, _)
GraphsFrom(v, budget) ==
    IF v > NumVertices THEN {<<>>}
    ELSE UNION { UNION { { <<s>> \o rest : rest \in GraphsFrom(v + 1, budget - m) }
                         : s \in [1..m -> EdgePairs] }
                 : m \in 0..budget }

(* the graphs with at most n edges *)
Graphs(n) == GraphsFrom(1, n)

NoGraph == <<>>

(* paths=None, the default of dijistra2.build_graph *)
NoPaths == [given |-> FALSE, recs |-> <<>>]

(* build_graph has not been called *)
NotBuilt == [by |-> "nobody", kind |-> "not called", adj |-> <<>>]

(* find_pivots has not been called *)
NoPivots == [called |-> FALSE, fast |-> FALSE, P |-> {}, W |-> {}]

(* no wrapper has been called *)
NoCall == [fn |-> "none", args |-> <<>>, nth |-> 0, before |-> {}, ret |-> "not called"]

CallerIdle == call = NoCall

(* no call of build_graph is under way *)
BuildIdle ==
    /\ nodes = <<>> /\ mode = "both" /\ paths = NoPaths /\ undirected = FALSE
    /\ weight_fn = "euclid" /\ built = NotBuilt

(* no call of find_pivots is under way *)
PivotIdle ==
    /\ edges = NoGraph /\ d_hat = <<>> /\ S = {} /\ k = 0 /\ B = 0
    /\ pivots = NoPivots

-----------------------------------------------------------------------------
(* dijkstra *)

(* lines 147 and 153: the two early returns *)
RejectedIfAbsent == start \notin DOMAIN adj \/ goal \notin DOMAIN adj

Rejected ==
    \/ start \in banned \/ goal \in banned
    \/ start \notin DOMAIN adj \/ goal \notin DOMAIN adj

(* the order of the heap's entries: Python compares the tuples (d, u) *)
EntryLess(a, b) == a[1] < b[1] \/ (a[1] = b[1] /\ a[2] < b[2])

(* heapq.heappush: the entry takes its place in pop order *)
RECURSIVE HeapPush(_, _)
HeapPush(q, e) ==
    IF q = <<>> THEN <<e>>
    ELSE IF EntryLess(e, Head(q)) THEN <<e>> \o q
    ELSE <<Head(q)>> \o HeapPush(Tail(q), e)

(* lines 185 and 204: membership in the banned set, as the loop tests it *)
InBannedNever(v) == FALSE

InBanned(v) == v \in banned

(* line 185: the popped entry is discarded *)
SkippedIfBanned(d, u) == InBanned(u)

Skipped(d, u) == d # dist[u] \/ InBanned(u)

(* line 197: the popped vertex is the goal *)
IsGoalNever(u) == FALSE

IsGoal(u) == u = goal

(* line 215: the relaxation test *)
ImprovesFirstOnly(nd, old) == old = Inf

Improves(nd, old) == nd < old

(* lines 203-218: the edge loop of u, popped with distance d, from edge i on *)
RECURSIVE RelaxFrom(_, _, _, _)
RelaxFrom(u, d, i, st) ==
    IF i > Len(adj[u]) THEN st
    ELSE LET v == adj[u][i][1]
             w == adj[u][i][2]
             nd == d + w
         IN  IF InBanned(v) THEN RelaxFrom(u, d, i + 1, st)
             ELSE IF Improves(nd, st.dist[v])
                  THEN RelaxFrom(u, d, i + 1,
                           [dist |-> [st.dist EXCEPT ![v] = nd],
                            prev |-> [st.prev EXCEPT ![v] = u],
                            pq   |-> HeapPush(st.pq, <<nd, v>>)])
                  ELSE RelaxFrom(u, d, i + 1, st)

(* lines 237-242: the walk along prev from the goal, reversed *)
RECURSIVE PathToUnreversed(_)
PathToUnreversed(cur) ==
    IF cur = None THEN <<>> ELSE <<cur>> \o PathToUnreversed(prev[cur])

RECURSIVE PathTo(_)
PathTo(cur) == IF cur = None THEN <<>> ELSE PathTo(prev[cur]) \o <<cur>>

(* lines 145-158: an early return *)
Reject ==
    /\ pc = "start"
    /\ Rejected
    /\ result' = <<Inf, <<>>>>
    /\ pc' = "done"
    /\ UNCHANGED <<adj, start, goal, banned, dist, prev, pq, pops, expanded>>

(* lines 160-163: the working structures *)
Initialize ==
    /\ pc = "start"
    /\ ~Rejected
    /\ dist' = [u \in DOMAIN adj |-> IF u = start THEN 0 ELSE Inf]
    /\ prev' = [u \in DOMAIN adj |-> None]
    /\ pq' = << <<0, start>> >>
    /\ pc' = "loop"
    /\ UNCHANGED <<adj, start, goal, banned, result, pops, expanded>>

(* lines 175-195: a stale or banned entry is popped and dropped *)
PopSkipKeeps ==
    /\ pc = "loop"
    /\ pq # <<>>
    /\ Skipped(Head(pq)[1], Head(pq)[2])
    /\ UNCHANGED <<adj, start, goal, banned, dist, prev, pq, pc, result, pops, expanded>>

PopSkip ==
    /\ pc = "loop"
    /\ pq # <<>>
    /\ Skipped(Head(pq)[1], Head(pq)[2])
    /\ pq' = Tail(pq)
    /\ pops' = pops + 1
    /\ UNCHANGED <<adj, start, goal, banned, dist, prev, pc, result, expanded>>

(* lines 175-202: the goal is popped, the loop is left *)
PopGoal ==
    /\ pc = "loop"
    /\ pq # <<>>
    /\ ~Skipped(Head(pq)[1], Head(pq)[2])
    /\ IsGoal(Head(pq)[2])
    /\ pq' = Tail(pq)
    /\ pops' = pops + 1
    /\ pc' = "finish"
    /\ UNCHANGED <<adj, start, goal, banned, dist, prev, result, expanded>>

(* lines 175-218: a vertex is popped and its edges are relaxed *)
PopRelax ==
    /\ pc = "loop"
    /\ pq # <<>>
    /\ ~Skipped(Head(pq)[1], Head(pq)[2])
    /\ ~IsGoal(Head(pq)[2])
    /\ LET d == Head(pq)[1]
           u == Head(pq)[2]
           st == RelaxFrom(u, d, 1, [dist |-> dist, prev |-> prev, pq |-> Tail(pq)])
       IN  /\ dist' = st.dist
           /\ prev' = st.prev
           /\ pq' = st.pq
           /\ expanded' = [expanded EXCEPT ![u] = @ + 1]
    /\ pops' = pops + 1
    /\ UNCHANGED <<adj, start, goal, banned, pc, result>>

(* line 173: the heap is empty, the loop is left *)
Exhausted ==
    /\ pc = "loop"
    /\ pq = <<>>
    /\ pc' = "finish"
    /\ UNCHANGED <<adj, start, goal, banned, dist, prev, pq, result, pops, expanded>>

(* lines 229-247: the result *)
Return ==
    /\ pc = "finish"
    /\ result' = IF dist[goal] = Inf THEN <<Inf, <<>>>>
                 ELSE <<dist[goal], PathTo(goal)>>
    /\ pc' = "done"
    /\ UNCHANGED <<adj, start, goal, banned, dist, prev, pq, pops, expanded>>

(* a call dijkstra(adj, start, goal, banned): start and goal may be ids that *)
(* are no key of adj (NumVertices + 1)                                      *)
Init ==
    /\ adj \in Graphs(MaxEdges)
    /\ start \in 1..(NumVertices + 1)
    /\ goal \in 1..(NumVertices + 1)
    /\ banned \in SUBSET Vertices
    /\ dist = <<>>
    /\ prev = <<>>
    /\ pq = <<>>
    /\ pc = "start"
    /\ result = NotCalled
    /\ pops = 0
    /\ expanded = [u \in Vertices |-> 0]
    /\ BuildIdle
    /\ PivotIdle
    /\ CallerIdle

Next ==
    \/ Reject /\ UNCHANGED <<buildVars, pivotVars, callerVars>>
    \/ Initialize /\ UNCHANGED <<buildVars, pivotVars, callerVars>>
    \/ PopSkip /\ UNCHANGED <<buildVars, pivotVars, callerVars>>
    \/ PopGoal /\ UNCHANGED <<buildVars, pivotVars, callerVars>>
    \/ PopRelax /\ UNCHANGED <<buildVars, pivotVars, callerVars>>
    \/ Exhausted /\ UNCHANGED <<buildVars, pivotVars, callerVars>>
    \/ Return /\ UNCHANGED <<buildVars, pivotVars, callerVars>>

Spec == Init /\ [][Next]_vars

(* dijkstra runs in one thread with nothing to wait for: while a step of    *)
(* the call is possible, one is taken                                       *)
SpecLive == Init /\ [][Next]_vars /\ WF_vars(Next)

-----------------------------------------------------------------------------
(* build_graph *)

MaxNodes == 3

(* Node positions: the right triangle with sides 3, 4, 5, so that every     *)
(* distance math.hypot computes is a whole number, computed exactly.        *)
Positions == {<<0, 0>>, <<3, 0>>, <<0, 4>>}

(* r=None of dijistra2.Node *)
NoRadius == -1

Radii == {0, 3, 5}

NodeRecords == [x : {0, 3}, y : {0, 4}, r : Radii \cup {NoRadius}]

NodeSets ==
    UNION { { ns \in [1..n -> NodeRecords] :
                 \A i \in 1..n : <<ns[i].x, ns[i].y>> \in Positions }
            : n \in 0..MaxNodes }

Modes == {"both", "either", "range", "paths", "mesh"}

(* weight functions a caller passes: the default euclid, the hop count      *)
(* lambda u, v: 1.0 of test_T5_hop_weight, and one that is not symmetric    *)
WeightFns == {"euclid", "hop", "uplink"}

Square(n) == n * n

(* euclid, lines 56-58: math.hypot(a.x - b.x, a.y - b.y) *)
euclid(a, b) ==
    CHOOSE d \in 0..5 : Square(d) = Square(a.x - b.x) + Square(a.y - b.y)

(* weight_fn(u, v) *)
Weight(a, b) ==
    CASE weight_fn = "euclid" -> euclid(a, b)
      [] weight_fn = "hop" -> 1
      [] weight_fn = "uplink" -> 2 * a.x + 2
      [] weight_fn = "energy" -> Square(euclid(a, b))

(* 0.5 * (w_uv + w_vu), line 97: the sums of the weight functions above are even *)
Average(w_uv, w_vu) == (w_uv + w_vu) \div 2

(* in_range, lines 60-62 *)
in_range_strict(src, dst) == euclid(src, dst) < src.r

in_range(src, dst) == euclid(src, dst) <= src.r

(* line 93: d <= min(u.r, v.r) *)
Smaller(a, b) == IF a <= b THEN a ELSE b

MutualRangeReversed(u, v) == euclid(u, v) >= Smaller(u.r, v.r)

MutualRange(u, v) == euclid(u, v) <= Smaller(u.r, v.r)

(* adj[u].append(e) *)
Appended(a, u, e) == [a EXCEPT ![u] = Append(@, e)]

(* line 83: a key with an empty list for every node *)
EmptyAdj == [i \in 1..Len(nodes) |-> <<>>]

(* iot_routing_dijkstra.build_graph, lines 85-115: the loop over the pairs  *)
(* i < j, from the pair (i, j) on                                           *)
RECURSIVE BuildPairs(_, _, _)
BuildPairs(i, j, a) ==
    IF i > Len(nodes) THEN [by |-> "iot", kind |-> "graph", adj |-> a]
    ELSE IF j > Len(nodes) THEN BuildPairs(i + 1, i + 2, a)
    ELSE LET u == nodes[i]
             v == nodes[j]
         IN  IF mode = "both"
             THEN IF MutualRange(u, v)
                  THEN LET w == Average(Weight(u, v), Weight(v, u))
                       IN  BuildPairs(i, j + 1,
                               Appended(Appended(a, i, <<j, w>>), j, <<i, w>>))
                  ELSE BuildPairs(i, j + 1, a)
             ELSE IF mode = "either"
             THEN LET a1 == IF in_range(u, v)
                            THEN Appended(a, i, <<j, Weight(u, v)>>) ELSE a
                      a2 == IF in_range(v, u)
                            THEN Appended(a1, j, <<i, Weight(v, u)>>) ELSE a1
                  IN  BuildPairs(i, j + 1, a2)
             ELSE [by |-> "iot", kind |-> "ValueError", adj |-> <<>>]

(* iot_routing_dijkstra.build_graph *)
build_graph == BuildPairs(1, 2, EmptyAdj)

(* dijistra2.build_graph, line 65: the record references a missing node *)
DanglingStartOnly(p) == p.start_id \notin DOMAIN nodes

Dangling(p) == p.start_id \notin DOMAIN nodes \/ p.end_id \notin DOMAIN nodes

(* dijistra2.build_graph, lines 63-71: the loop over the path records *)
RECURSIVE BuildPaths(_, _)
BuildPaths(n, a) ==
    IF n > Len(paths.recs) THEN [by |-> "dijistra2", kind |-> "graph", adj |-> a]
    ELSE LET p == paths.recs[n]
         IN  IF Dangling(p)
             THEN [by |-> "dijistra2", kind |-> "KeyError", adj |-> <<>>]
             ELSE LET a1 == Appended(a, p.start_id, <<p.end_id, p.length>>)
                      a2 == IF undirected
                            THEN Appended(a1, p.end_id, <<p.start_id, p.length>>)
                            ELSE a1
                  IN  BuildPaths(n + 1, a2)

(* dijistra2.build_graph, lines 75-88: the loop over the pairs i < j *)
RECURSIVE BuildRange(_, _, _)
BuildRange(i, j, a) ==
    IF i > Len(nodes) THEN [by |-> "dijistra2", kind |-> "graph", adj |-> a]
    ELSE IF j > Len(nodes) THEN BuildRange(i + 1, i + 2, a)
    ELSE LET u == nodes[i]
             v == nodes[j]
             d == euclid(u, v)
             ok_uv == u.r # NoRadius /\ d <= u.r
             ok_vu == v.r # NoRadius /\ d <= v.r
         IN  IF ok_uv /\ ok_vu
             THEN LET w == Average(Weight(u, v), Weight(v, u))
                  IN  BuildRange(i, j + 1,
                          Appended(Appended(a, i, <<j, w>>), j, <<i, w>>))
             ELSE BuildRange(i, j + 1, a)

(* dijistra2.build_graph, lines 57-91 *)
build_graph2 ==
    IF mode = "paths"
    THEN IF ~paths.given
         THEN [by |-> "dijistra2", kind |-> "ValueError", adj |-> <<>>]
         ELSE BuildPaths(1, EmptyAdj)
    ELSE IF mode = "range" THEN BuildRange(1, 2, EmptyAdj)
    ELSE [by |-> "dijistra2", kind |-> "ValueError", adj |-> <<>>]

(* Node.r of iot_routing_dijkstra is a float: every node has a radius *)
AllRadiiGiven == \A i \in 1..Len(nodes) : nodes[i].r # NoRadius

(* a call of iot_routing_dijkstra.build_graph *)
CallBuildGraph ==
    /\ built = NotBuilt
    /\ AllRadiiGiven
    /\ built' = build_graph
    /\ UNCHANGED <<nodes, mode, paths, undirected, weight_fn>>

(* a call of dijistra2.build_graph *)
CallBuildGraph2 ==
    /\ built = NotBuilt
    /\ built' = build_graph2
    /\ UNCHANGED <<nodes, mode, paths, undirected, weight_fn>>

(* no call of dijkstra is under way *)
DijkstraIdle ==
    /\ adj = NoGraph /\ start = 1 /\ goal = 1 /\ banned = {}
    /\ dist = <<>> /\ prev = <<>> /\ pq = <<>> /\ pc = "idle"
    /\ result = NotCalled /\ pops = 0 /\ expanded = <<>>

(* the arguments of a call of build_graph with paths left at its default *)
InitBuild ==
    /\ nodes \in NodeSets
    /\ mode \in Modes
    /\ paths = NoPaths
    /\ undirected = FALSE
    /\ weight_fn \in WeightFns
    /\ built = NotBuilt
    /\ DijkstraIdle
    /\ PivotIdle
    /\ CallerIdle

NextBuild ==
    \/ CallBuildGraph /\ UNCHANGED <<dijkstraVars, pivotVars, callerVars>>
    \/ CallBuildGraph2 /\ UNCHANGED <<dijkstraVars, pivotVars, callerVars>>

SpecBuild == InitBuild /\ [][NextBuild]_vars

MaxPaths == 2

(* lengths of the path records *)
PathLengths == {3, 7}

(* Path records: their ends are ids of nodes, or the id of no node *)
PathRecords ==
    [start_id : 1..(MaxNodes + 1), end_id : 1..(MaxNodes + 1), length : PathLengths]

(* the nodes of parse_json_to_graph, lines 160-163: no radius *)
PathNodeSets ==
    { [i \in 1..n |-> [x |-> 0, y |-> 0, r |-> NoRadius]] : n \in 0..MaxNodes }

(* the arguments of a call build_graph(nodes, mode="paths", paths, undirected) *)
InitPaths ==
    /\ nodes \in PathNodeSets
    /\ mode = "paths"
    /\ paths \in { [given |-> TRUE, recs |-> rs] :
                      rs \in UNION { [1..n -> PathRecords] : n \in 0..MaxPaths } }
    /\ undirected \in BOOLEAN
    /\ weight_fn = "euclid"
    /\ built = NotBuilt
    /\ DijkstraIdle
    /\ PivotIdle
    /\ CallerIdle

NextPaths == CallBuildGraph2 /\ UNCHANGED <<dijkstraVars, pivotVars, callerVars>>

SpecPaths == InitPaths /\ [][NextPaths]_vars

-----------------------------------------------------------------------------
(* find_pivots *)

MaxDHat == 1
MaxK == 2
MaxBound == 2

(* edges.get(u, []) *)
EdgesOf(u) == IF u \in DOMAIN edges THEN edges[u] ELSE <<>>

(* lines 31 and 33: the edge u -> v of weight w spreads the frontier *)
SpreadsLowering(u, v, w) == d_hat[u] + w < d_hat[v] /\ d_hat[u] + w < B

Spreads(u, v, w) == d_hat[u] + w <= d_hat[v] /\ d_hat[u] + w < B

(* lines 27-34: the layer that follows the layer Wi_1 *)
NextLayer(Wi_1) ==
    { v \in DOMAIN d_hat :
        \E u \in Wi_1 : \E i \in 1..Len(EdgesOf(u)) :
            EdgesOf(u)[i][1] = v /\ Spreads(u, v, EdgesOf(u)[i][2]) }

(* lines 26-38: rounds i..k of the relaxation loop *)
RECURSIVE RelaxRounds(_, _, _)
RelaxRounds(i, W, Wi_1) ==
    IF i > k THEN W
    ELSE LET Wi == NextLayer(Wi_1)
         IN  IF Wi = {} THEN W \cup Wi
             ELSE RelaxRounds(i + 1, W \cup Wi, Wi)

(* lines 23-38: the frontier W *)
Frontier == RelaxRounds(1, S, S)

Larger(a, b) == IF a >= b THEN a ELSE b

(* line 41: the fast path is taken *)
FastPathSum(W) == Cardinality(W) > k + Larger(1, Cardinality(S))

FastPath(W) == Cardinality(W) > k * Larger(1, Cardinality(S))

(* line 51: the edge u -> v of weight w is tight; on whole numbers          *)
(* abs(d_hat[u] + w - d_hat[v]) < 1e-12 is equality                         *)
Tight(u, v, w) == d_hat[u] + w = d_hat[v]

(* lines 49-52: children[u] within W, as a set *)
Children(u, W) ==
    { v \in W : \E i \in 1..Len(EdgesOf(u)) :
                    EdgesOf(u)[i][1] = v /\ Tight(u, v, EdgesOf(u)[i][2]) }

(* lines 53-56: indeg[v] == 0 *)
IsRootButForItself(v, W) == v \in W /\ \A u \in W \ {v} : v \notin Children(u, W)

IsRoot(v, W) == v \in W /\ \A u \in W : v \notin Children(u, W)

(* lines 59-71: the vertices the stack walk from a root visits *)
RECURSIVE Visited(_, _, _)
Visited(stack, visited, W) ==
    IF stack = {} THEN visited
    ELSE LET x == CHOOSE y \in stack : TRUE
         IN  IF x \in visited THEN Visited(stack \ {x}, visited, W)
             ELSE Visited((stack \ {x}) \cup Children(x, W), visited \cup {x}, W)

subtree_size(root, W) == Cardinality(Visited({root}, {}, W))

(* lines 73-77: the pivots *)
SelectPivotsAmongW(W) ==
    { u \in W : IsRoot(u, W) /\ subtree_size(u, W) >= k }

SelectPivots(W) ==
    { u \in S : IsRoot(u, W) /\ subtree_size(u, W) >= k }

(* find_pivots, lines 9-79 *)
find_pivots ==
    LET W == Frontier
    IN  IF FastPath(W)
        THEN [called |-> TRUE, fast |-> TRUE, P |-> S, W |-> W]
        ELSE [called |-> TRUE, fast |-> FALSE, P |-> SelectPivots(W), W |-> W]

(* a call of find_pivots *)
CallFindPivots ==
    /\ ~pivots.called
    /\ pivots' = find_pivots
    /\ UNCHANGED <<edges, d_hat, S, k, B>>

(* the arguments of a call of find_pivots *)
InitPivots ==
    /\ edges \in Graphs(MaxEdges)
    /\ d_hat \in [Vertices -> 0..MaxDHat]
    /\ S \in SUBSET Vertices
    /\ k \in 0..MaxK
    /\ B \in 1..MaxBound
    /\ pivots = NoPivots
    /\ DijkstraIdle
    /\ BuildIdle
    /\ CallerIdle

NextPivots == CallFindPivots /\ UNCHANGED <<dijkstraVars, buildVars, callerVars>>

SpecPivots == InitPivots /\ [][NextPivots]_vars

-----------------------------------------------------------------------------
(* reroute_on_failure and reroute_with_banned (iot_routing_dijkstra.py)     *)

MaxCalls == 2
NetworkSize == 4
MaxBanned == 2

(* the nodes of the network stand in a row, at x = 0, 2, 4, 1, 3 *)
Place(i) == [x |-> (2 * (i - 1)) % 5, y |-> 0]

(* every node covers the whole row, but for at most one that is switched    *)
(* off (radius 0)                                                           *)
Networks ==
    { [i \in 1..NetworkSize |-> [x |-> Place(i).x, y |-> Place(i).y, r |-> rs[i]]] :
        rs \in { f \in [1..NetworkSize -> {0, 5}] :
                    Cardinality({ i \in 1..NetworkSize : f[i] = 0 }) <= 1 } }

(* ids a caller passes *)
NodeIds == 1..NetworkSize

(* the sets of failed nodes a caller passes *)
BannedSets == { b \in SUBSET NodeIds : Cardinality(b) <= MaxBanned }

(* line 264: banned = {failed_id} *)
FailedSetKept(failed_id) == banned \cup {failed_id}

FailedSet(failed_id) == {failed_id}

(* no wrapper is under way, and the program has calls left to make *)
MayCall == pc \in {"idle", "returned", "raised"} /\ call.nth < MaxCalls

(* lines 263-265 and 275-276: dijkstra is entered with the graph fresh that *)
(* build_graph has just returned; an error of build_graph leaves the wrapper *)
EnterDijkstra(fn, args, fresh, s, g, ban) ==
    /\ built' = fresh
    /\ IF built'.kind = "graph"
       THEN /\ adj' = built'.adj
            /\ start' = s
            /\ goal' = g
            /\ banned' = ban
            /\ pc' = "start"
            /\ expanded' = [u \in DOMAIN built'.adj |-> 0]
       ELSE /\ pc' = "raised"
            /\ expanded' = <<>>
            /\ UNCHANGED <<adj, start, goal, banned>>
    /\ dist' = <<>>
    /\ prev' = <<>>
    /\ pq' = <<>>
    /\ result' = NotCalled
    /\ pops' = 0
    /\ call' = [fn |-> fn, args |-> args, nth |-> call.nth + 1,
                before |-> call.before \cup banned, ret |-> "not called"]
    /\ UNCHANGED <<nodes, mode, paths, undirected, weight_fn>>

(* lines 252-265 *)
reroute_on_failure ==
    /\ MayCall
    /\ LET fresh == build_graph
       IN  \E s, g, failed_id \in NodeIds :
               EnterDijkstra("reroute_on_failure",
                             [start |-> s, goal |-> g, failed_id |-> failed_id],
                             fresh, s, g, FailedSet(failed_id))

(* lines 267-276 *)
reroute_with_banned ==
    /\ MayCall
    /\ LET fresh == build_graph
       IN  \E s, g \in NodeIds : \E banned_nodes \in BannedSets :
               EnterDijkstra("reroute_with_banned",
                             [start |-> s, goal |-> g, banned_nodes |-> banned_nodes],
                             fresh, s, g, banned_nodes)

(* lines 265 and 276: return dijkstra(...) *)
RerouteReturn ==
    /\ pc = "done"
    /\ call.fn \in {"reroute_on_failure", "reroute_with_banned"}
    /\ call' = [call EXCEPT !.ret = result]
    /\ pc' = "returned"
    /\ UNCHANGED <<adj, start, goal, banned, dist, prev, pq, result, pops, expanded>>
    /\ UNCHANGED buildVars

RerouteModes == {"both", "either", "mesh"}

(* a program that holds a network and calls the two wrappers again and again *)
InitReroute ==
    /\ nodes \in Networks
    /\ mode \in RerouteModes
    /\ paths = NoPaths
    /\ undirected = FALSE
    /\ weight_fn \in {"euclid", "energy"}
    /\ built = NotBuilt
    /\ DijkstraIdle
    /\ PivotIdle
    /\ CallerIdle

NextReroute ==
    \/ reroute_on_failure /\ UNCHANGED pivotVars
    \/ reroute_with_banned /\ UNCHANGED pivotVars
    \/ Reject /\ UNCHANGED <<buildVars, pivotVars, callerVars>>
    \/ Initialize /\ UNCHANGED <<buildVars, pivotVars, callerVars>>
    \/ PopSkip /\ UNCHANGED <<buildVars, pivotVars, callerVars>>
    \/ PopGoal /\ UNCHANGED <<buildVars, pivotVars, callerVars>>
    \/ PopRelax /\ UNCHANGED <<buildVars, pivotVars, callerVars>>
    \/ Exhausted /\ UNCHANGED <<buildVars, pivotVars, callerVars>>
    \/ Return /\ UNCHANGED <<buildVars, pivotVars, callerVars>>
    \/ RerouteReturn /\ UNCHANGED pivotVars

SpecReroute == InitReroute /\ [][NextReroute]_vars

-----------------------------------------------------------------------------
(* has_reverse_path (iot_routing_dijkstra.py)                               *)

(* line 287: dijkstra(adj_directed, start=dst, goal=src) *)
ReverseEndsForward(src, dst) == [start |-> src, goal |-> dst]

ReverseEnds(src, dst) == [start |-> dst, goal |-> src]

(* line 288: cost_rev < math.inf *)
Finite(cost) == cost < Inf

(* lines 278-287: dijkstra is entered from dst towards src, nothing banned *)
has_reverse_path ==
    /\ pc = "idle"
    /\ \E src, dst \in 1..(NumVertices + 1) :
          /\ start' = ReverseEnds(src, dst).start
          /\ goal' = ReverseEnds(src, dst).goal
          /\ call' = [fn |-> "has_reverse_path", args |-> [src |-> src, dst |-> dst],
                      nth |-> call.nth + 1, before |-> {}, ret |-> "not called"]
    /\ banned' = {}
    /\ pc' = "start"
    /\ expanded' = [u \in DOMAIN adj |-> 0]
    /\ UNCHANGED <<adj, dist, prev, pq, result, pops>>

(* line 288: the triple (ok, cost_rev, path_rev) *)
ReverseReturn ==
    /\ pc = "done"
    /\ call.fn = "has_reverse_path"
    /\ call' = [call EXCEPT !.ret = <<Finite(result[1]), result[1], result[2]>>]
    /\ pc' = "returned"
    /\ UNCHANGED <<adj, start, goal, banned, dist, prev, pq, result, pops, expanded>>

(* a caller that holds a directed graph *)
InitReverse ==
    /\ adj \in Graphs(MaxEdges)
    /\ start = 1 /\ goal = 1 /\ banned = {}
    /\ dist = <<>> /\ prev = <<>> /\ pq = <<>> /\ pc = "idle"
    /\ result = NotCalled /\ pops = 0 /\ expanded = <<>>
    /\ BuildIdle
    /\ PivotIdle
    /\ CallerIdle

NextReverse ==
    \/ has_reverse_path /\ UNCHANGED <<buildVars, pivotVars>>
    \/ Reject /\ UNCHANGED <<buildVars, pivotVars, callerVars>>
    \/ Initialize /\ UNCHANGED <<buildVars, pivotVars, callerVars>>
    \/ PopSkip /\ UNCHANGED <<buildVars, pivotVars, callerVars>>
    \/ PopGoal /\ UNCHANGED <<buildVars, pivotVars, callerVars>>
    \/ PopRelax /\ UNCHANGED <<buildVars, pivotVars, callerVars>>
    \/ Exhausted /\ UNCHANGED <<buildVars, pivotVars, callerVars>>
    \/ Return /\ UNCHANGED <<buildVars, pivotVars, callerVars>>
    \/ ReverseReturn /\ UNCHANGED <<buildVars, pivotVars>>

SpecReverse == InitReverse /\ [][NextReverse]_vars

-----------------------------------------------------------------------------
(* Properties of dijkstra, checked under Spec *)

(* the call is one that the early returns of dijkstra answer *)
BadEndpoints ==
    \/ start \in banned \/ goal \in banned
    \/ start \notin Vertices \/ goal \notin Vertices

(* the graph has an edge u -> v *)
HasEdge(u, v) == \E i \in 1..Len(adj[u]) : adj[u][i][1] = v

(* the least weight of an edge u -> v *)
MinWeight(u, v) ==
    CHOOSE w \in Weights :
        /\ \E i \in 1..Len(adj[u]) : adj[u][i] = <<v, w>>
        /\ \A i \in 1..Len(adj[u]) : adj[u][i][1] = v => w <= adj[u][i][2]

(* the sum of the least edge weights along a vertex sequence *)
RECURSIVE RouteCost(_)
RouteCost(p) ==
    IF Len(p) <= 1 THEN 0
    ELSE MinWeight(p[1], p[2]) + RouteCost(Tail(p))

(* p runs from s to g along edges of the graph *)
IsWalk(p, s, g) ==
    /\ Len(p) >= 1
    /\ p[1] = s
    /\ p[Len(p)] = g
    /\ \A i \in 1..(Len(p) - 1) : HasEdge(p[i], p[i + 1])

(* the simple directed paths from start to goal that avoid the set ban *)
Routes(ban) ==
    { p \in UNION { [1..n -> Vertices \ ban] : n \in 1..NumVertices } :
        /\ IsWalk(p, start, goal)
        /\ \A i, j \in 1..Len(p) : i # j => p[i] # p[j] }

(* the least cost of a route avoiding ban, math.inf when there is none *)
MinRouteCost(ban) ==
    IF Routes(ban) = {} THEN Inf
    ELSE CHOOSE c \in { RouteCost(p) : p \in Routes(ban) } :
             \A p \in Routes(ban) : c <= RouteCost(p)

NothingExpanded == \A u \in Vertices : expanded[u] = 0

(* C1: for start and goal in the graph and not banned, the returned cost is  *)
(* the minimum total weight over the directed paths from start to goal       *)
(* whose vertices are all non-banned, and it is infinity exactly when there  *)
(* is no such path.                                                          *)
C1_OptimalCost ==
    (pc = "done" /\ ~BadEndpoints) =>
        /\ result[1] = MinRouteCost(banned)
        /\ (result[1] = Inf <=> Routes(banned) = {})

(* a run that took the dearer route because the cheaper one is banned *)
C1_Witness ==
    /\ pc = "done"
    /\ ~BadEndpoints
    /\ banned # {}
    /\ result[1] = 1
    /\ MinRouteCost({}) = 0
    /\ pops >= 2

(* C2: a finite returned cost is not negative and is the sum of the edge     *)
(* weights along the returned sequence, which runs from start to goal along  *)
(* edges of the graph that was passed in.                                    *)
C2_CostIsPathWeight ==
    (pc = "done" /\ result[1] # Inf) =>
        /\ result[1] >= 0
        /\ IsWalk(result[2], start, goal)
        /\ result[1] = RouteCost(result[2])

(* a two-edge path of positive cost was returned *)
C2_Witness ==
    /\ pc = "done"
    /\ result[1] # Inf
    /\ Len(result[2]) = 3
    /\ result[1] >= 1

(* C3: with start or goal banned or absent from the graph, the call returns  *)
(* (infinity, empty sequence) and nothing is popped or relaxed.              *)
C3_EarlyReturn ==
    BadEndpoints =>
        /\ pc \in {"start", "done"}
        /\ pops = 0
        /\ NothingExpanded
        /\ pc = "done" => result = <<Inf, <<>>>>

(* the banned start is also the goal and has edges *)
C3_Witness ==
    /\ pc = "done"
    /\ start = goal
    /\ start \in banned
    /\ Len(adj[start]) > 0
    /\ result = <<Inf, <<>>>>

(* C4: the returned sequence holds no banned vertex, and when exactly one    *)
(* route avoids the banned vertices the returned sequence is that route.     *)
C4_AvoidsBanned ==
    pc = "done" =>
        /\ \A i \in 1..Len(result[2]) : result[2][i] \notin banned
        /\ (~BadEndpoints /\ Cardinality(Routes(banned)) = 1)
               => result[2] \in Routes(banned)

(* two routes exist, the ban leaves one, and it is the one returned *)
C4_Witness ==
    /\ pc = "done"
    /\ ~BadEndpoints
    /\ banned # {}
    /\ Cardinality(Routes({})) >= 2
    /\ Cardinality(Routes(banned)) = 1
    /\ result[2] \in Routes(banned)

(* C5: with start = goal, in the graph and not banned, the call returns      *)
(* cost 0 and the sequence [start], and no edge loop is run.                 *)
C5_StartIsGoal ==
    (pc = "done" /\ start = goal /\ ~BadEndpoints) =>
        /\ result = <<0, <<start>>>>
        /\ NothingExpanded

(* start = goal with a zero-weight self-loop and another edge leaving it *)
C5_Witness ==
    /\ pc = "done"
    /\ start = goal
    /\ ~BadEndpoints
    /\ \E i \in 1..Len(adj[start]) : adj[start][i] = <<start, 0>>
    /\ \E i \in 1..Len(adj[start]) : adj[start][i][1] # start
    /\ result = <<0, <<start>>>>

-----------------------------------------------------------------------------
(* Properties of find_pivots, checked under SpecPivots *)

(* the vertices a walk of at most n spreading edges reaches from S *)
RECURSIVE ReachWithin(_)
ReachWithin(n) ==
    IF n = 0 THEN S
    ELSE LET R == ReachWithin(n - 1)
         IN  R \cup { v \in Vertices :
                        \E u \in R : \E i \in 1..Len(edges[u]) :
                            /\ edges[u][i][1] = v
                            /\ d_hat[u] + edges[u][i][2] <= d_hat[v]
                            /\ d_hat[u] + edges[u][i][2] < B }

(* C6: find_pivots returns (P, W) with S a subset of W and P a subset of S,  *)
(* on the fast-path return and on the pivot-selection return.                *)
C6_PivotsWithinSettled ==
    pivots.called => (S \subseteq pivots.W /\ pivots.P \subseteq S)

(* pivot selection kept some settled vertices, dropped others, and the       *)
(* frontier grew beyond S                                                    *)
C6_Witness ==
    /\ pivots.called
    /\ ~pivots.fast
    /\ pivots.P # {}
    /\ pivots.P # S
    /\ pivots.P \subseteq S
    /\ pivots.W # S

(* C7: when the frontier of the relaxation phase has more than               *)
(* k * max(1, |S|) vertices, the returned P is S and the returned W is that  *)
(* frontier.                                                                 *)
C7_FastPath ==
    (pivots.called
        /\ Cardinality(ReachWithin(k)) > k * (IF S = {} THEN 1 ELSE Cardinality(S)))
    => (pivots.fast /\ pivots.P = S /\ pivots.W = ReachWithin(k))

(* the fast path is taken with k >= 1 where pivot selection would have       *)
(* dropped a settled vertex that a tight edge points into                    *)
C7_Witness ==
    /\ pivots.called
    /\ pivots.fast
    /\ k >= 1
    /\ pivots.P = S
    /\ Cardinality(pivots.W) > k * Cardinality(S)
    /\ \E u \in S : \E x \in pivots.W : \E i \in 1..Len(edges[x]) :
           edges[x][i][1] = u /\ d_hat[x] + edges[x][i][2] = d_hat[u]

-----------------------------------------------------------------------------
(* Properties of build_graph, checked under SpecBuild *)

(* the square of the distance between the nodes i and j *)
Dist2(i, j) ==
    (nodes[i].x - nodes[j].x) * (nodes[i].x - nodes[j].x)
        + (nodes[i].y - nodes[j].y) * (nodes[i].y - nodes[j].y)

(* distance(i, j) <= radius(i) *)
Reaches(i, j) == nodes[i].r >= 0 /\ Dist2(i, j) <= nodes[i].r * nodes[i].r

(* the weights of the edges u -> v of the built graph *)
BuiltWeights(u, v) ==
    { built.adj[u][i][2] : i \in { n \in 1..Len(built.adj[u]) : built.adj[u][n][1] = v } }

(* build_graph returned a graph in a coverage mode *)
CoverageBuilt ==
    /\ built.kind = "graph"
    /\ \/ built.by = "iot" /\ mode \in {"both", "either"}
       \/ built.by = "dijistra2" /\ mode = "range"

AllZeroRadius == \A i \in 1..Len(nodes) : nodes[i].r = 0

NoEdgeBuilt == \A u \in DOMAIN built.adj : built.adj[u] = <<>>

DistinctPositions ==
    \A i, j \in 1..Len(nodes) : i # j => Dist2(i, j) > 0

(* C8 as claimed: with every radius 0, whatever the positions, every         *)
(* neighbor list of the built graph is empty.                                *)
C8_ZeroRadiusNoEdges ==
    (CoverageBuilt /\ AllZeroRadius) => NoEdgeBuilt

(* C8, amended: with every radius 0 and no two nodes at the same position,   *)
(* every neighbor list of the built graph is empty.                          *)
C8_ZeroRadiusApartNoEdges ==
    (CoverageBuilt /\ AllZeroRadius /\ DistinctPositions) => NoEdgeBuilt

(* three zero-radius nodes at three positions, built in mode 'both' *)
C8_Witness ==
    /\ CoverageBuilt
    /\ built.by = "iot"
    /\ mode = "both"
    /\ AllZeroRadius
    /\ DistinctPositions
    /\ Len(nodes) = 3
    /\ NoEdgeBuilt

(* C9: in mode 'both' the edge u -> v is present iff distance(u, v) is at    *)
(* most radius(u) and at most radius(v), and then v -> u is present with the *)
(* same weight; in mode 'either' u -> v is present iff distance(u, v) is at  *)
(* most radius(u); every node is a key of the graph.                         *)
C9_CoverageEdges ==
    (built.by = "iot" /\ built.kind = "graph" /\ mode \in {"both", "either"}) =>
        /\ DOMAIN built.adj = 1..Len(nodes)
        /\ \A u, v \in 1..Len(nodes) : u # v =>
              /\ mode = "both" =>
                    /\ BuiltWeights(u, v) # {} <=> (Reaches(u, v) /\ Reaches(v, u))
                    /\ BuiltWeights(u, v) = BuiltWeights(v, u)
              /\ mode = "either" =>
                    (BuiltWeights(u, v) # {} <=> Reaches(u, v))

(* mode 'either' built a one-way edge at the very edge of the range, and a   *)
(* node without any edge is a key all the same                               *)
C9_Witness ==
    /\ built.by = "iot"
    /\ built.kind = "graph"
    /\ mode = "either"
    /\ \E u, v \in 1..Len(nodes) :
          /\ BuiltWeights(u, v) # {}
          /\ BuiltWeights(v, u) = {}
          /\ Dist2(u, v) = nodes[u].r * nodes[u].r
    /\ \E u \in DOMAIN built.adj : built.adj[u] = <<>>

(* the mode is none that the called build_graph knows *)
UnknownMode ==
    \/ built.by = "iot" /\ mode \notin {"both", "either"}
    \/ built.by = "dijistra2" /\ mode \notin {"range", "paths"}

(* C10: build_graph called with an unrecognized mode fails with an           *)
(* invalid-configuration error and returns no graph, for every node set.     *)
C10_UnknownModeFails ==
    UnknownMode => built.kind = "ValueError"

-----------------------------------------------------------------------------
(* Properties of build_graph in mode 'paths', checked under SpecPaths *)

(* the edges the first n path records give the vertex u, in input order *)
RECURSIVE EdgesFromRecords(_, _)
EdgesFromRecords(u, n) ==
    IF n = 0 THEN <<>>
    ELSE LET r == paths.recs[n]
             forward == IF r.start_id = u THEN << <<r.end_id, r.length>> >> ELSE <<>>
             reverse == IF undirected /\ r.end_id = u
                        THEN << <<r.start_id, r.length>> >> ELSE <<>>
         IN  EdgesFromRecords(u, n - 1) \o forward \o reverse

(* some record names a vertex that is not in the node set *)
SomeRecordDangles ==
    \E n \in 1..Len(paths.recs) :
        \/ paths.recs[n].start_id \notin 1..Len(nodes)
        \/ paths.recs[n].end_id \notin 1..Len(nodes)

(* C11: in mode 'paths' build_graph fails with a data-integrity error        *)
(* exactly when a record references a vertex absent from the node set;       *)
(* otherwise the edges are one edge start -> end of weight length per        *)
(* record, in input order, plus the reverse edge per record exactly when     *)
(* undirected is requested.                                                  *)
C11_PathsMode ==
    (built.kind # "not called" /\ mode = "paths" /\ paths.given) =>
        /\ built.kind = "KeyError" <=> SomeRecordDangles
        /\ ~SomeRecordDangles =>
              /\ built.kind = "graph"
              /\ DOMAIN built.adj = 1..Len(nodes)
              /\ \A u \in 1..Len(nodes) :
                    built.adj[u] = EdgesFromRecords(u, Len(paths.recs))

(* one record A -> B, not mirrored: B is a neighbor of A and A has no edge   *)
(* from B                                                                    *)
C11_Witness ==
    /\ built.kind = "graph"
    /\ mode = "paths"
    /\ ~undirected
    /\ Len(paths.recs) = 1
    /\ paths.recs[1].start_id # paths.recs[1].end_id
    /\ built.adj[paths.recs[1].start_id]
           = << <<paths.recs[1].end_id, paths.recs[1].length>> >>
    /\ built.adj[paths.recs[1].end_id] = <<>>

-----------------------------------------------------------------------------
(* Properties of the reroute wrappers, checked under SpecReroute *)

(* the least of a set of costs *)
Least(cs) == CHOOSE c \in cs : \A e \in cs : c <= e

(* Bellman-Ford on the graph g without the vertices of ban: n more rounds   *)
(* over the costs d                                                         *)
RECURSIVE Settle(_, _, _, _)
Settle(g, ban, d, n) ==
    IF n = 0 THEN d
    ELSE Settle(g, ban,
                [v \in DOMAIN g |->
                    IF v \in ban THEN d[v]
                    ELSE Least({d[v]} \cup
                               UNION { { d[u] + g[u][i][2] :
                                           i \in { j \in 1..Len(g[u]) : g[u][j][1] = v } } :
                                       u \in { x \in DOMAIN g \ ban : d[x] < Inf } })],
                n - 1)

(* the least cost of a walk from s to t in g that avoids ban; math.inf when *)
(* there is none or when s or t is banned or is no vertex of g              *)
LeastCost(g, s, t, ban) ==
    IF s \notin DOMAIN g \/ t \notin DOMAIN g \/ s \in ban \/ t \in ban THEN Inf
    ELSE Settle(g, ban, [v \in DOMAIN g |-> IF v = s THEN 0 ELSE Inf], Len(g))[t]

(* the weight of the edge u -> v of g, the lightest when there are several *)
EdgeWeight(g, u, v) == Least({ g[u][i][2] : i \in { j \in 1..Len(g[u]) : g[u][j][1] = v } })

(* p runs from s to t along edges of g, outside ban, and costs c *)
IsRouteOfCost(g, p, s, t, ban, c) ==
    /\ Len(p) >= 1
    /\ p[1] = s
    /\ p[Len(p)] = t
    /\ \A i \in 1..Len(p) : p[i] \in DOMAIN g \ ban
    /\ \A i \in 1..(Len(p) - 1) : \E j \in 1..Len(g[p[i]]) : g[p[i]][j][1] = p[i + 1]
    /\ LET RECURSIVE Sum(_)
           Sum(i) == IF i >= Len(p) THEN 0 ELSE EdgeWeight(g, p[i], p[i + 1]) + Sum(i + 1)
       IN  Sum(1) = c

(* the banned set the wrapper under way has to hand to dijkstra *)
AskedBanned ==
    IF call.fn = "reroute_on_failure" THEN {call.args.failed_id}
    ELSE call.args.banned_nodes

(* C12: reroute_on_failure returns what dijkstra returns on a freshly built *)
(* build_graph(nodes, mode) with banned = {failed_id}, reroute_with_banned  *)
(* the same with the given banned set; nothing banned in an earlier call    *)
(* is kept: whatever calls came before, the cost is the least cost of a     *)
(* route avoiding exactly the set asked for in this call.                   *)
C12_RerouteIsDijkstra ==
    /\ (pc \in {"start", "loop", "finish", "done", "returned"}
          /\ call.fn \in {"reroute_on_failure", "reroute_with_banned"}) =>
            /\ adj = build_graph.adj
            /\ start = call.args.start
            /\ goal = call.args.goal
            /\ banned = AskedBanned
    /\ (pc = "returned" /\ call.fn \in {"reroute_on_failure", "reroute_with_banned"}) =>
            /\ call.ret = result
            /\ call.ret[1] = LeastCost(build_graph.adj, call.args.start, call.args.goal,
                                       AskedBanned)
            /\ IF call.ret[1] = Inf THEN call.ret[2] = <<>>
               ELSE IsRouteOfCost(build_graph.adj, call.ret[2], call.args.start,
                                  call.args.goal, AskedBanned, call.ret[1])
    /\ pc = "raised" => build_graph.kind # "graph"

(* a second call that bans nothing returns a route through a node that the  *)
(* call before it had banned                                                *)
C12_Witness ==
    /\ pc = "returned"
    /\ call.fn = "reroute_with_banned"
    /\ call.nth = 2
    /\ call.args.banned_nodes = {}
    /\ call.ret[1] < Inf
    /\ \E i \in 1..Len(call.ret[2]) : call.ret[2][i] \in call.before

-----------------------------------------------------------------------------
(* Properties of has_reverse_path, checked under SpecReverse *)

(* the vertices that n more steps along edges of g reach from the set R *)
RECURSIVE Grow(_, _, _)
Grow(g, R, n) ==
    IF n = 0 THEN R
    ELSE Grow(g, R \cup UNION { { g[u][i][1] : i \in 1..Len(g[u]) } : u \in R }, n - 1)

(* g has vertices s and t and a directed path from s to t *)
HasDirectedPath(g, s, t) ==
    /\ s \in DOMAIN g
    /\ t \in DOMAIN g
    /\ t \in Grow(g, {s}, Len(g))

(* C13: has_reverse_path(adj, src, dst) returns (ok, cost, path) with ok    *)
(* true exactly when a directed path from dst to src exists; then cost is   *)
(* the finite least cost of such a path and path runs from dst to src;      *)
(* otherwise cost is infinity and path is empty.                            *)
C13_ReversePath ==
    (pc = "returned" /\ call.fn = "has_reverse_path") =>
        LET src == call.args.src
            dst == call.args.dst
            ok == call.ret[1]
            cost == call.ret[2]
            path == call.ret[3]
        IN  /\ ok <=> HasDirectedPath(adj, dst, src)
            /\ ok => /\ cost < Inf
                     /\ cost = LeastCost(adj, dst, src, {})
                     /\ IsRouteOfCost(adj, path, dst, src, {}, cost)
            /\ ~ok => cost = Inf /\ path = <<>>

(* a one-way graph: src reaches dst, and the way back takes two edges *)
C13_Witness ==
    /\ pc = "returned"
    /\ call.fn = "has_reverse_path"
    /\ call.args.src # call.args.dst
    /\ call.ret[1]
    /\ Len(call.ret[3]) = 3
    /\ call.ret[3][1] = call.args.dst
    /\ \E i \in 1..Len(adj[call.args.src]) : adj[call.args.src][i][1] = call.args.dst

-----------------------------------------------------------------------------
(* Properties of the pivot selection of find_pivots, checked under SpecPivots *)

(* edges holds an edge x -> u whose weight makes d_hat[x] + w = d_hat[u] *)
TightEdge(x, u) ==
    \E i \in 1..Len(edges[x]) :
        edges[x][i][1] = u /\ d_hat[x] + edges[x][i][2] = d_hat[u]

(* the vertices of W that n more steps along tight edges reach from R *)
RECURSIVE TightGrow(_, _, _)
TightGrow(R, W, n) ==
    IF n = 0 THEN R
    ELSE TightGrow(R \cup { v \in W : \E x \in R : TightEdge(x, v) }, W, n - 1)

(* the vertices reached from u along tight edges inside W, u among them *)
TightReach(u, W) == TightGrow({u}, W, NumVertices)

(* the call did not leave by the fast path *)
SlowPath ==
    /\ pivots.called
    /\ Cardinality(pivots.W) <= k * (IF Cardinality(S) > 1 THEN Cardinality(S) ELSE 1)

(* C14: off the fast path, u is in P exactly when u is in S, no tight edge  *)
(* from a vertex of W (u itself included) points into u, and at least k     *)
(* distinct vertices, u counted, are reachable from u along tight edges     *)
(* inside W; the count is computed also when tight edges form a cycle.      *)
C14_PivotSelection ==
    SlowPath =>
        \A u \in Vertices :
            u \in pivots.P <=>
                /\ u \in S
                /\ ~\E x \in pivots.W : TightEdge(x, u)
                /\ Cardinality(TightReach(u, pivots.W)) >= k

(* a pivot whose tight edges lead into a cycle of two vertices of W *)
C14_Witness ==
    /\ SlowPath
    /\ \E u \in pivots.P : \E a \in TightReach(u, pivots.W) :
          \E b \in pivots.W \ {a} : TightEdge(a, b) /\ a \in TightReach(b, pivots.W)
    /\ k >= 2

-----------------------------------------------------------------------------
(* Properties of the relaxation phase of find_pivots, checked under SpecPivots *)

(* edges holds an edge u -> v that does not worsen d_hat[v] and stays under B *)
SpreadingEdge(u, v) ==
    \E i \in 1..Len(edges[u]) :
        /\ edges[u][i][1] = v
        /\ d_hat[u] + edges[u][i][2] <= d_hat[v]
        /\ d_hat[u] + edges[u][i][2] < B

(* the walks of at most n spreading edges that leave a vertex of S *)
SpreadingWalks(n) ==
    { q \in UNION { [1..m -> Vertices] : m \in 1..(n + 1) } :
        /\ q[1] \in S
        /\ \A i \in 1..(Len(q) - 1) : SpreadingEdge(q[i], q[i + 1]) }

(* C15: the returned W is exactly the set of the vertices that a walk of at *)
(* most k edges reaches from a vertex of S, each edge non-worsening         *)
(* (d_hat[u] + w <= d_hat[v]) and under the bound (d_hat[u] + w < B); the   *)
(* early stop on an empty layer does not change it; and the call leaves     *)
(* d_hat as it was.                                                         *)
C15_FrontierIsReach ==
    /\ [](pivots.called => pivots.W = { q[Len(q)] : q \in SpreadingWalks(k) })
    /\ [][d_hat' = d_hat]_vars

(* two rounds were asked for, and the second one added a vertex that no     *)
(* walk of one edge reaches                                                 *)
C15_Witness ==
    /\ pivots.called
    /\ k = 2
    /\ pivots.W # { q[Len(q)] : q \in SpreadingWalks(1) }
    /\ \E q \in SpreadingWalks(2) : Len(q) = 3 /\ q[3] \notin S /\ q[2] \notin S

-----------------------------------------------------------------------------
(* Termination of dijkstra, checked under SpecLive *)

(* C16: on every graph with weights >= 0, zero-weight edges and cycles      *)
(* included, and for every start, goal and banned set, the loop over the    *)
(* heap ends: from inside the loop the call comes to leave it, with the     *)
(* heap empty or with the goal popped at its recorded (finite) distance,    *)
(* and then returns a result.                                               *)
C16_Terminates ==
    /\ (pc = "loop") ~> (pc = "finish" /\ (pq = <<>> \/ dist[goal] < Inf))
    /\ (pc = "finish") ~> (pc = "done")
    /\ <>(pc = "done")

(* a call that went round a cycle of two zero-weight edges, expanded both   *)
(* of its vertices and returned                                             *)
C16_Witness ==
    /\ pc = "done"
    /\ \E u, v \in Vertices :
          /\ u # v
          /\ \E i \in 1..Len(adj[u]) : adj[u][i] = <<v, 0>>
          /\ \E i \in 1..Len(adj[v]) : adj[v][i] = <<u, 0>>
          /\ expanded[u] >= 1
          /\ expanded[v] >= 1
    /\ pops >= 3

-----------------------------------------------------------------------------
(* Settled vertices of dijkstra, checked under Spec *)

(* the entry at the top of the heap is stale, or its vertex is banned *)
TopIsDropped ==
    /\ pc = "loop"
    /\ pq # <<>>
    /\ (Head(pq)[1] # dist[Head(pq)[2]] \/ Head(pq)[2] \in banned)

(* the entry at the top of the heap is the goal's, at its recorded distance *)
TopIsGoal ==
    /\ pc = "loop"
    /\ pq # <<>>
    /\ Head(pq)[2] = goal
    /\ Head(pq)[1] = dist[goal]
    /\ goal \notin banned

(* C17: once a vertex is popped with a non-stale entry, its distance is     *)
(* final: it is the least cost of a path from start that avoids the banned  *)
(* vertices, and no later step lowers it; each vertex has its edges relaxed *)
(* at most once; popping a stale or banned entry relaxes nothing; and the   *)
(* distance of the goal when it is popped is the cost returned.             *)
C17_SettledIsFinal ==
    /\ [](\A u \in Vertices :
             /\ expanded[u] <= 1
             /\ expanded[u] >= 1 => dist[u] = LeastCost(adj, start, u, banned))
    /\ [][\A u \in Vertices : expanded[u] >= 1 => dist'[u] = dist[u]]_vars
    /\ [][TopIsDropped =>
            /\ dist' = dist
            /\ prev' = prev
            /\ expanded' = expanded
            /\ pq' = Tail(pq)]_vars
    /\ [][TopIsGoal =>
            /\ pc' = "finish"
            /\ dist'[goal] = LeastCost(adj, start, goal, banned)
            /\ dist'[goal] = Head(pq)[1]]_vars
    /\ [][(pc = "finish" /\ dist[goal] < Inf) => result'[1] = dist[goal]]_vars

(* the goal was popped after two other vertices were expanded and a stale   *)
(* entry was dropped, and its distance then is the cost returned            *)
C17_Witness ==
    /\ pc = "done"
    /\ result[1] < Inf
    /\ result[1] = dist[goal]
    /\ Cardinality({ u \in Vertices : expanded[u] = 1 }) = 2
    /\ pops >= 4

====
